---- MODULE Spec2Model ----
(***************************************************************************)
(* Model of server/src/workers/WorkerPool.ts (the worker pool), of the     *)
(* worker thread of server/src/workers/crypto.worker.ts, and of the        *)
(* worker_threads events the pool listens to.                              *)
(*                                                                         *)
(* The main thread is one JavaScript event loop: runTask, the 'message'    *)
(* and 'error' handlers and the two halves of terminate() (before and      *)
(* after its await) each run to completion and are one action each.  The   *)
(* worker threads run in parallel with it and take their own steps.        *)
(* Workers are numbered 1..poolSize in creation order, tasks 1..submitted  *)
(* in submission order.                                                    *)
(***************************************************************************)
EXTENDS Integers, Sequences, FiniteSets, TLC

\* Bounds of the model.
MaxPool == 2
MaxTasks == 4
BelowOne == 1
MaxRequests == 3
MaxStock == 2

VARIABLES
    poolSize,           \* WorkerPool.poolSize
    workers,            \* WorkerPool.workers (Worker[])
    availableWorkers,   \* WorkerPool.availableWorkers (Worker[], used as a stack)
    taskQueue,          \* WorkerPool.taskQueue (WorkerTask[], push / shift)
    messageListeners,   \* per worker: the tasks whose messageHandler is attached
    errorListeners,     \* per worker: the tasks whose errorHandler is attached
    inbox,              \* per worker: payloads posted by postMessage, not yet received
    outbox,             \* per worker: results posted by the worker, not yet delivered
    pendingError,       \* per worker: an 'error' event emitted, not yet delivered
    threadState,        \* per worker: "waiting" | "running" | "faulted" | "stopped" | "absent"
    current,            \* per worker: the payload the thread is executing (0: none)
    future,             \* per task: "none" | "pending" | "fulfilled" | "rejected"
    settleCalls,        \* per task: number of calls of task.resolve / task.reject
    assigned,           \* per task: the worker its payload was posted to (0: none)
    submitted,          \* number of runTask calls so far
    terminating,        \* a terminate() call is at its await
    terminated,         \* history: a terminate() call has resolved
    dispatchLog,        \* history: tasks in the order executeTask posted them
    wasQueued,          \* history: tasks that runTask pushed on taskQueue
    began,              \* history: tasks a worker thread began to execute
    queuedAtTerminate,  \* history: tasks in taskQueue when terminate() was called
    inFlightAtTerminate,\* history: tasks in flight when terminate() was called
    faultTask,          \* per worker: the payload its thread was executing when it died
    report,             \* history, per task: the event its handler was called with
    orderKept,          \* history, per task: when it was settled, the task its
                        \* handler had found waiting (if any) was already posted
    inventoryCount,     \* routes.ts: inventory.count of 'Pfizer-Batch-A'
    initialStock,       \* history: inventory.count before any request
    reservations,       \* routes.ts: number of CONFIRMED rows in reservations
    reqPc,              \* per POST /reserve-dose request: where its handler is
    currentStock        \* per request: the handler's local currentStock

poolVars == <<poolSize, workers, availableWorkers, taskQueue, messageListeners,
          errorListeners, inbox, outbox, pendingError, threadState, current,
          future, settleCalls, assigned, submitted, terminating, terminated,
          dispatchLog, wasQueued, began, queuedAtTerminate, inFlightAtTerminate,
          faultTask, report, orderKept>>

reserveVars == <<inventoryCount, initialStock, reservations, reqPc, currentStock>>

vars == <<poolVars, reserveVars>>

WorkerIds == 1..MaxPool
RequestIds == 1..MaxRequests
TaskIds == 1..MaxTasks
Settled == {"fulfilled", "rejected"}

\* ---------------------------------------------------------------- helpers

Range(q) == {q[i] : i \in 1..Len(q)}
Last(q) == q[Len(q)]
Front(q) == SubSeq(q, 1, Len(q) - 1)
Without(q, x) == SelectSeq(q, LAMBDA y : y # x)

\* The part of the state the main thread's handlers read and write.
Main ==
    [workers |-> workers, availableWorkers |-> availableWorkers,
     taskQueue |-> taskQueue, messageListeners |-> messageListeners,
     errorListeners |-> errorListeners, inbox |-> inbox, future |-> future,
     settleCalls |-> settleCalls, assigned |-> assigned,
     dispatchLog |-> dispatchLog, faultTask |-> faultTask, report |-> report,
     orderKept |-> orderKept, found |-> 0]

SetMain(s) ==
    \E m \in {s} :
        /\ workers' = m.workers
        /\ availableWorkers' = m.availableWorkers
        /\ taskQueue' = m.taskQueue
        /\ messageListeners' = m.messageListeners
        /\ errorListeners' = m.errorListeners
        /\ inbox' = m.inbox
        /\ future' = m.future
        /\ settleCalls' = m.settleCalls
        /\ assigned' = m.assigned
        /\ dispatchLog' = m.dispatchLog
        /\ faultTask' = m.faultTask
        /\ report' = m.report
        /\ orderKept' = m.orderKept

\* ------------------------------------------------------------ constructor

\* initializePool: poolSize workers, all of them available.
InitializePool(n) == [i \in 1..n |-> i]

\* The constructor stores its arguments and calls initializePool; it has no
\* check of poolSize and no throw.
ConstructorThrows(n) == FALSE

\* ------------------------------------------------------------ task futures

\* History: at this point of a handler the task it found at the head of the
\* queue when it was entered (s.found, 0: none) has been posted to a worker.
Posted(s) == s.found = 0 \/ s.found \in Range(s.dispatchLog)

\* task.resolve(result): a Promise keeps its first settlement.
Resolve(s, t) ==
    [s EXCEPT !.settleCalls[t] = @ + 1,
              !.future[t] = IF @ = "pending" THEN "fulfilled" ELSE @,
              !.orderKept[t] = Posted(s)]

\* task.reject(error)
Reject(s, t) ==
    [s EXCEPT !.settleCalls[t] = @ + 1,
              !.future[t] = IF @ = "pending" THEN "rejected" ELSE @,
              !.orderKept[t] = Posted(s)]

\* ------------------------------------------------------------- executeTask

\* Variant: the worker is read but left on availableWorkers.
PopWorkerKeep(s) == s

\* const worker = this.availableWorkers.pop()!
PopWorker(s) == [s EXCEPT !.availableWorkers = Front(@)]

\* Variant: posts to the first available worker instead of the one popped.
ExecuteTaskFirst(s, t) ==
    LET w == Head(s.availableWorkers)
        p == PopWorker(s)
    IN  [p EXCEPT !.messageListeners[w] = Append(@, t),
                  !.errorListeners[w] = Append(@, t),
                  !.inbox[w] = Append(@, t),
                  !.assigned[t] = w,
                  !.dispatchLog = Append(@, t)]

\* worker.once('message', messageHandler); worker.once('error', errorHandler);
\* worker.postMessage(task.data)
ExecuteTask(s, t) ==
    LET w == Last(s.availableWorkers)
        p == PopWorker(s)
    IN  [p EXCEPT !.messageListeners[w] = Append(@, t),
                  !.errorListeners[w] = Append(@, t),
                  !.inbox[w] = Append(@, t),
                  !.assigned[t] = w,
                  !.dispatchLog = Append(@, t)]

\* Variant: the errorHandler is left attached.
DetachKeepError(s, w, t) ==
    [s EXCEPT !.messageListeners[w] = Without(@, t)]

\* worker.off('message', messageHandler); worker.off('error', errorHandler)
Detach(s, w, t) ==
    [s EXCEPT !.messageListeners[w] = Without(@, t),
              !.errorListeners[w] = Without(@, t)]

\* this.availableWorkers.push(worker)
ReturnWorker(s, w) == [s EXCEPT !.availableWorkers = Append(@, w)]

\* Variant: the newest waiting task is taken (pop instead of shift).
ShiftLast(q) == [task |-> Last(q), rest |-> Front(q)]

\* const nextTask = this.taskQueue.shift()!
Shift(q) == [task |-> Head(q), rest |-> Tail(q)]

\* Variant: the head of the queue is dispatched but left in the queue.
ProcessNextKeepsQueued(s) ==
    IF Len(s.taskQueue) > 0
    THEN ExecuteTask(s, Head(s.taskQueue))
    ELSE s

\* Variant: the queue is not looked at when a worker frees up.
ProcessNextSkip(s) == s

\* if (this.taskQueue.length > 0) { shift; this.executeTask(nextTask) }
ProcessNext(s) ==
    IF Len(s.taskQueue) > 0
    THEN ExecuteTask([s EXCEPT !.taskQueue = Shift(s.taskQueue).rest],
                     Shift(s.taskQueue).task)
    ELSE s

\* The task at the head of taskQueue (0: none is waiting).
Waiting(s) == IF Len(s.taskQueue) > 0 THEN Head(s.taskQueue) ELSE 0

\* History: the handler of task t is entered with this event.
Entered(s, t, kind, success, of) ==
    [s EXCEPT !.report[t] = [kind |-> kind, success |-> success, task |-> of],
              !.found = Waiting(s)]

\* Variant: a failure report rejects the task without returning the worker.
MessageHandlerFailureKeepsWorker(s, w, t, result) ==
    LET s0 == Entered(s, t, "message", result.success, result.task)
        s1 == Detach(s0, w, t)
        s2 == ReturnWorker(s1, w)
        s3 == ProcessNext(s2)
    IN  IF result.success THEN Resolve(s3, t) ELSE Reject(s1, t)

\* Variant: the result's success flag is not looked at.
MessageHandlerAlwaysResolves(s, w, t, result) ==
    LET s0 == Entered(s, t, "message", result.success, result.task)
        s1 == Detach(s0, w, t)
        s2 == ReturnWorker(s1, w)
        s3 == ProcessNext(s2)
    IN  Resolve(s3, t)

\* Variant: the task is settled before the worker is returned and the next
\* task dispatched.
MessageHandlerSettlesFirst(s, w, t, result) ==
    LET s0 == Entered(s, t, "message", result.success, result.task)
        s1 == Detach(s0, w, t)
        s2 == IF result.success THEN Resolve(s1, t) ELSE Reject(s1, t)
        s3 == ReturnWorker(s2, w)
    IN  ProcessNext(s3)

\* messageHandler of the task t dispatched to worker w, called with result.
MessageHandler(s, w, t, result) ==
    LET s0 == Entered(s, t, "message", result.success, result.task)
        s1 == Detach(s0, w, t)
        s2 == ReturnWorker(s1, w)
        s3 == ProcessNext(s2)
    IN  IF result.success THEN Resolve(s3, t) ELSE Reject(s3, t)

\* errorHandler of the task t dispatched to worker w.
ErrorHandler(s, w, t) ==
    LET s0 == Entered(s, t, "error", FALSE, s.faultTask[w])
        s1 == Detach(s0, w, t)
        s2 == ReturnWorker(s1, w)
        s3 == ProcessNext(s2)
    IN  Reject(s3, t)

\* EventEmitter.emit: every listener attached when the event is emitted is
\* called, in the order of attachment.
RECURSIVE EmitMessage(_, _, _, _)
EmitMessage(s, w, listeners, result) ==
    IF listeners = <<>> THEN s
    ELSE EmitMessage(MessageHandler(s, w, Head(listeners), result),
                     w, Tail(listeners), result)

RECURSIVE EmitError(_, _, _)
EmitError(s, w, listeners) ==
    IF listeners = <<>> THEN s
    ELSE EmitError(ErrorHandler(s, w, Head(listeners)), w, Tail(listeners))

\* ------------------------------------------------------------ derived state

\* Tasks posted to worker w whose result (message or error) was not received.
InFlight(w) == {t \in TaskIds : assigned[t] = w /\ future[t] = "pending"}
Busy == {w \in 1..poolSize : InFlight(w) # {}}
Idle == Len(availableWorkers)
Position(q, x) == CHOOSE i \in 1..Len(q) : q[i] = x
Dispatched(t) == t \in Range(dispatchLog)

\* How many times task t is in taskQueue.
QueueCount(t) == Cardinality({i \in 1..Len(taskQueue) : taskQueue[i] = t})

\* The workers that carry a handler of task t (the handlers hold the task).
Holders(t) ==
    {w \in WorkerIds :
        t \in Range(messageListeners[w]) \cup Range(errorListeners[w])}

\* ------------------------------------------------------------------- Init

InitWith(n) ==
    /\ poolSize = n
    /\ workers = InitializePool(n)
    /\ availableWorkers = InitializePool(n)
    /\ taskQueue = <<>>
    /\ messageListeners = [w \in WorkerIds |-> <<>>]
    /\ errorListeners = [w \in WorkerIds |-> <<>>]
    /\ inbox = [w \in WorkerIds |-> <<>>]
    /\ outbox = [w \in WorkerIds |-> <<>>]
    /\ pendingError = [w \in WorkerIds |-> FALSE]
    /\ threadState = [w \in WorkerIds |-> IF w <= n THEN "waiting" ELSE "absent"]
    /\ current = [w \in WorkerIds |-> 0]
    /\ future = [t \in TaskIds |-> "none"]
    /\ settleCalls = [t \in TaskIds |-> 0]
    /\ assigned = [t \in TaskIds |-> 0]
    /\ submitted = 0
    /\ terminating = FALSE
    /\ terminated = FALSE
    /\ dispatchLog = <<>>
    /\ wasQueued = {}
    /\ began = {}
    /\ queuedAtTerminate = {}
    /\ inFlightAtTerminate = {}
    /\ faultTask = [w \in WorkerIds |-> 0]
    /\ report = [t \in TaskIds |->
                    [kind |-> "none", success |-> FALSE, task |-> 0]]
    /\ orderKept = [t \in TaskIds |-> FALSE]

\* The inventory row holds stock doses and no request has arrived.
InitReserve(stock) ==
    /\ inventoryCount = stock
    /\ initialStock = stock
    /\ reservations = 0
    /\ reqPc = [r \in RequestIds |-> "new"]
    /\ currentStock = [r \in RequestIds |-> 0]

\* A pool built as the specification requires, with capacity >= 1.
Init == (\E n \in 1..MaxPool : InitWith(n)) /\ InitReserve(0)

\* A pool built with any capacity, the ones below 1 included.
InitAnyCapacity ==
    (\E n \in (0 - BelowOne)..MaxPool : InitWith(n)) /\ InitReserve(0)

\* The server with its pool idle and any stock of doses.
InitRoutes == InitWith(MaxPool) /\ (\E stock \in 0..MaxStock : InitReserve(stock))

\* ---------------------------------------------------------------- actions

\* Variant: the task is put at the head of the queue.
EnqueueFront(q, t) == <<t>> \o q

\* this.taskQueue.push(task)
Enqueue(q, t) == Append(q, t)

\* runTask(data): the Promise executor runs synchronously.
RunTask ==
    /\ submitted < MaxTasks
    /\ LET t == submitted + 1
           s == [Main EXCEPT !.future[t] = "pending"]
       IN  /\ submitted' = t
           /\ IF Len(availableWorkers) > 0
              THEN /\ SetMain(ExecuteTask(s, t))
                   /\ wasQueued' = wasQueued
              ELSE /\ SetMain([s EXCEPT !.taskQueue = Enqueue(@, t)])
                   /\ wasQueued' = wasQueued \cup {t}
    /\ UNCHANGED <<poolSize, outbox, pendingError, threadState, current,
                   terminating, terminated, began, queuedAtTerminate,
                   inFlightAtTerminate>>
    /\ UNCHANGED reserveVars

\* The worker thread receives a payload: parentPort.on('message', ...) starts.
WorkerReceive(w) ==
    /\ threadState[w] = "waiting"
    /\ inbox[w] # <<>>
    /\ threadState' = [threadState EXCEPT ![w] = "running"]
    /\ current' = [current EXCEPT ![w] = Head(inbox[w])]
    /\ inbox' = [inbox EXCEPT ![w] = Tail(@)]
    /\ began' = began \cup {Head(inbox[w])}
    /\ UNCHANGED <<poolSize, workers, availableWorkers, taskQueue,
                   messageListeners, errorListeners, outbox, pendingError,
                   future, settleCalls, assigned, submitted, terminating,
                   terminated,
                   dispatchLog, wasQueued, queuedAtTerminate,
                   inFlightAtTerminate, faultTask, report, orderKept>>
    /\ UNCHANGED reserveVars

\* The worker thread posts its one result: success, or the caught failure.
WorkerFinish(w, ok) ==
    /\ threadState[w] = "running"
    /\ outbox' = [outbox EXCEPT ![w] = Append(@, [success |-> ok, task |-> current[w]])]
    /\ threadState' = [threadState EXCEPT ![w] = "waiting"]
    /\ current' = [current EXCEPT ![w] = 0]
    /\ UNCHANGED <<poolSize, workers, availableWorkers, taskQueue,
                   messageListeners, errorListeners, inbox, pendingError,
                   future, settleCalls, assigned, submitted, terminating,
                   terminated,
                   dispatchLog, wasQueued, began, queuedAtTerminate,
                   inFlightAtTerminate, faultTask, report, orderKept>>
    /\ UNCHANGED reserveVars

\* The worker thread dies of an uncaught exception: worker_threads emits
\* 'error' on the Worker and the thread is terminated.
WorkerFault(w) ==
    /\ threadState[w] = "running"
    /\ threadState' = [threadState EXCEPT ![w] = "faulted"]
    /\ pendingError' = [pendingError EXCEPT ![w] = TRUE]
    /\ current' = [current EXCEPT ![w] = 0]
    /\ faultTask' = [faultTask EXCEPT ![w] = current[w]]
    /\ UNCHANGED <<poolSize, workers, availableWorkers, taskQueue,
                   messageListeners, errorListeners, inbox, outbox,
                   future, settleCalls, assigned, submitted, terminating,
                   terminated,
                   dispatchLog, wasQueued, began, queuedAtTerminate,
                   inFlightAtTerminate, report, orderKept>>
    /\ UNCHANGED reserveVars

\* The main thread receives a worker's result: 'message' is emitted.
DeliverMessage(w) ==
    /\ outbox[w] # <<>>
    /\ SetMain(EmitMessage(Main, w, messageListeners[w], Head(outbox[w])))
    /\ outbox' = [outbox EXCEPT ![w] = Tail(@)]
    /\ UNCHANGED <<poolSize, pendingError, threadState, current, submitted,
                   terminating, terminated, wasQueued, began, queuedAtTerminate,
                   inFlightAtTerminate>>
    /\ UNCHANGED reserveVars

\* The main thread receives a worker's fault: 'error' is emitted (the listener
\* of createWorker logs it, the errorHandler of the task in flight runs).
DeliverError(w) ==
    /\ pendingError[w]
    /\ SetMain(EmitError(Main, w, errorListeners[w]))
    /\ pendingError' = [pendingError EXCEPT ![w] = FALSE]
    /\ UNCHANGED <<poolSize, outbox, threadState, current, submitted,
                   terminating, terminated, wasQueued, began, queuedAtTerminate,
                   inFlightAtTerminate>>
    /\ UNCHANGED reserveVars

\* terminate(), up to its await: worker.terminate() stops every thread.
TerminateCall ==
    /\ ~terminating
    /\ terminating' = TRUE
    /\ threadState' = [w \in WorkerIds |->
            IF w \in Range(workers) /\ threadState[w] \in {"waiting", "running"}
            THEN "stopped" ELSE threadState[w]]
    /\ current' = [w \in WorkerIds |-> IF w \in Range(workers) THEN 0 ELSE current[w]]
    /\ queuedAtTerminate' = queuedAtTerminate \cup Range(taskQueue)
    /\ inFlightAtTerminate' = inFlightAtTerminate \cup UNION {InFlight(w) : w \in WorkerIds}
    /\ UNCHANGED <<poolSize, workers, availableWorkers, taskQueue,
                   messageListeners, errorListeners, inbox, outbox,
                   pendingError, future, settleCalls, assigned, submitted,
                   terminated, dispatchLog, wasQueued, began, faultTask,
                   report, orderKept>>
    /\ UNCHANGED reserveVars

\* Variant: availableWorkers is not reset.
TerminateClearKeepIdle(s) == [s EXCEPT !.workers = <<>>]

\* What terminate() assigns after its await: workers and availableWorkers.
TerminateClear(s) == [s EXCEPT !.workers = <<>>, !.availableWorkers = <<>>]

\* terminate(), after its await: every worker has exited, and a worker's
\* pending events are delivered before its 'exit'.
TerminateDone ==
    /\ terminating
    /\ \A w \in Range(workers) : outbox[w] = <<>> /\ ~pendingError[w]
    /\ SetMain(TerminateClear(Main))
    /\ terminating' = FALSE
    /\ terminated' = TRUE
    /\ UNCHANGED <<poolSize, outbox, pendingError, threadState, current,
                   submitted, wasQueued, began, queuedAtTerminate,
                   inFlightAtTerminate>>
    /\ UNCHANGED reserveVars

\* ------------------------------------------------- POST /reserve-dose

\* client = await getDbClient()
ReserveConnect(r) ==
    /\ reqPc[r] = "new"
    /\ reqPc' = [reqPc EXCEPT ![r] = "connected"]
    /\ UNCHANGED <<inventoryCount, initialStock, reservations, currentStock>>
    /\ UNCHANGED poolVars

\* 1. Check stock: SELECT count; if (currentStock <= 0) answer 400.
ReserveCheckStock(r) ==
    /\ reqPc[r] = "connected"
    /\ currentStock' = [currentStock EXCEPT ![r] = inventoryCount]
    /\ reqPc' = [reqPc EXCEPT ![r] =
                    IF inventoryCount <= 0 THEN "refused" ELSE "checked"]
    /\ UNCHANGED <<inventoryCount, initialStock, reservations>>
    /\ UNCHANGED poolVars

\* 2. Decrement stock: UPDATE inventory SET count = count - 1.
ReserveDecrement(r) ==
    /\ reqPc[r] = "checked"
    /\ inventoryCount' = inventoryCount - 1
    /\ reqPc' = [reqPc EXCEPT ![r] = "decremented"]
    /\ UNCHANGED <<initialStock, reservations, currentStock>>
    /\ UNCHANGED poolVars

\* 3. Create reservation: INSERT ... 'CONFIRMED'; answer 'Dose reserved'.
ReserveInsert(r) ==
    /\ reqPc[r] = "decremented"
    /\ reservations' = reservations + 1
    /\ reqPc' = [reqPc EXCEPT ![r] = "reserved"]
    /\ UNCHANGED <<inventoryCount, initialStock, currentStock>>
    /\ UNCHANGED poolVars

\* The requests' database steps interleave: each await yields to the others.
NextRoutes ==
    \/ \E r \in RequestIds : ReserveConnect(r)
    \/ \E r \in RequestIds : ReserveCheckStock(r)
    \/ \E r \in RequestIds : ReserveDecrement(r)
    \/ \E r \in RequestIds : ReserveInsert(r)

SpecRoutes == InitRoutes /\ [][NextRoutes]_vars

Next ==
    \/ RunTask
    \/ \E w \in WorkerIds : WorkerReceive(w)
    \/ \E w \in WorkerIds, ok \in BOOLEAN : WorkerFinish(w, ok)
    \/ \E w \in WorkerIds : WorkerFault(w)
    \/ \E w \in WorkerIds : DeliverMessage(w)
    \/ \E w \in WorkerIds : DeliverError(w)
    \/ TerminateCall
    \/ TerminateDone

Spec == Init /\ [][Next]_vars

\* Any capacity the constructor accepts.
SpecAnyCapacity == InitAnyCapacity /\ [][Next]_vars

\* No terminate() and no worker fault: every worker answers every payload.
NextAnswering ==
    \/ RunTask
    \/ \E w \in WorkerIds : WorkerReceive(w)
    \/ \E w \in WorkerIds, ok \in BOOLEAN : WorkerFinish(w, ok)
    \/ \E w \in WorkerIds : DeliverMessage(w)

\* Worker threads run and the event loop delivers their messages.
Fairness ==
    /\ \A w \in WorkerIds : WF_vars(WorkerReceive(w))
    /\ \A w \in WorkerIds : WF_vars(\E ok \in BOOLEAN : WorkerFinish(w, ok))
    /\ \A w \in WorkerIds : WF_vars(DeliverMessage(w))

SpecAnswering == Init /\ [][NextAnswering]_vars /\ Fairness

\* ------------------------------------------------------------------ claims

\* C1: over any sequence of submissions, worker messages, worker errors and
\* terminate(), no task's Future has resolve or reject called on it more than
\* once.
C1_SettledAtMostOnce == \A t \in TaskIds : settleCalls[t] <= 1

\* C1 witness: one task was rejected by a worker fault and another fulfilled
\* by a result message, each settled once.
C1_Witness ==
    \E a, b \in TaskIds :
        /\ future[a] = "rejected" /\ settleCalls[a] = 1
        /\ threadState[assigned[a]] = "faulted"
        /\ future[b] = "fulfilled" /\ settleCalls[b] = 1

\* C2: with no terminate() and every worker answering every payload, under
\* fair scheduling every submitted task is eventually dispatched and its
\* Future eventually fulfilled or rejected.
C2_EventuallySettled ==
    \A t \in TaskIds :
        (future[t] = "pending") ~> (Dispatched(t) /\ future[t] \in Settled)

\* C2 witness: a task that had to wait in the queue has been settled.
C2_Witness ==
    \E t \in wasQueued : Dispatched(t) /\ future[t] \in Settled

C4_NoDoubleDispatch == \A w \in WorkerIds : Cardinality(InFlight(w)) <= 1

\* C4 witness: a worker that completed one task has the next one in flight.
C4_Witness ==
    \E a, b \in TaskIds :
        /\ a # b /\ assigned[a] # 0 /\ assigned[a] = assigned[b]
        /\ future[a] \in Settled /\ future[b] = "pending"

\* C5: after a worker fault the pool stays operational: no task is left in
\* flight on a worker that has faulted and whose fault has been handled, so
\* every dispatched task is on a worker that can complete it.
C5_OperationalAfterFault ==
    \A t \in TaskIds :
        Dispatched(t) /\ future[t] = "pending" =>
            ~(threadState[assigned[t]] = "faulted" /\ ~pendingError[assigned[t]])

\* C6: of two tasks that were both placed in the queue, the one submitted
\* first is dispatched first.
C6_QueueDispatchOrder ==
    \A a, b \in wasQueued :
        a < b /\ Dispatched(b) =>
            /\ Dispatched(a)
            /\ Position(dispatchLog, a) < Position(dispatchLog, b)

\* C6 witness: two queued tasks have both been dispatched.
C6_Witness ==
    \E a, b \in wasQueued : a < b /\ Dispatched(a) /\ Dispatched(b)

\* C7 as stated: of two queued tasks A then B, A's Future is settled by the
\* time B begins executing on a worker.
C7_SettledBeforeNextBegins ==
    \A a, b \in wasQueued : a < b /\ b \in began => future[a] \in Settled

\* C7 amended: of two queued tasks A then B, A has been dispatched to a
\* worker by the time B begins executing on a worker.
C7_DispatchedBeforeNextBegins ==
    \A a, b \in wasQueued : a < b /\ b \in began => Dispatched(a)

\* C7 witness: two queued tasks, the later one executing while the earlier
\* one is still unsettled.
C7_Witness ==
    \E a, b \in wasQueued : a < b /\ b \in began /\ future[a] = "pending"

\* C8 as stated: when terminate() resolves, workers, availableWorkers and
\* taskQueue are all empty.
C8_AllClearedAtShutdown ==
    [][TerminateDone =>
        workers' = <<>> /\ availableWorkers' = <<>> /\ taskQueue' = <<>>]_vars

\* C8 amended: when terminate() resolves, workers and availableWorkers are
\* empty and taskQueue is left as it was.
C8_WorkersClearedAtShutdown ==
    [][TerminateDone =>
        workers' = <<>> /\ availableWorkers' = <<>> /\ taskQueue' = taskQueue]_vars

\* C8 witness: terminate() has resolved, having been called with a task
\* queued and a task in flight.
C8_Witness ==
    /\ terminated
    /\ queuedAtTerminate # {}
    /\ inFlightAtTerminate # {}

\* C9: a task that is in the queue when terminate() is called is never
\* dispatched afterwards and its Future stays pending.
C9_QueuedNeverDispatched ==
    \A t \in queuedAtTerminate : ~Dispatched(t) /\ future[t] = "pending"

\* C10: constructing the pool with a capacity below 1 fails, so that no pool
\* has zero workers before shutdown.
C10_CapacityBelowOneRejected ==
    /\ poolSize < 1 => ConstructorThrows(poolSize)
    /\ ~terminated => Len(workers) >= 1

\* C11: on a fresh pool, as long as no completion has been handled, the first
\* poolSize tasks submitted are dispatched at once and never queued, and
\* every further task is in the queue, not dispatched.
C11_IdleWorkerReuse ==
    (~terminated /\ \A u \in TaskIds : settleCalls[u] = 0) =>
        /\ submitted <= poolSize => taskQueue = <<>>
        /\ \A t \in 1..submitted :
              IF t <= poolSize
              THEN Dispatched(t) /\ t \notin wasQueued
              ELSE t \in Range(taskQueue) /\ ~Dispatched(t)

\* C11 witness: poolSize + 1 tasks were submitted to a pool of at least two
\* workers before any completion; the last one waits in the queue.
C11_Witness ==
    /\ poolSize >= 2
    /\ submitted = poolSize + 1
    /\ \A u \in TaskIds : settleCalls[u] = 0
    /\ ~terminating /\ ~terminated
    /\ taskQueue = <<poolSize + 1>>
    /\ \A t \in 1..poolSize : Dispatched(t)

\* A worker on which an earlier task was rejected by a failure report.
ReportedFailure(w) ==
    \E u \in TaskIds :
        assigned[u] = w /\ report[u].kind = "message" /\ ~report[u].success

\* C12: when a worker's failure report (success = false) is handled, the
\* task it was dispatched for is rejected, no other Future changes, and the
\* worker is back in service (idle, or running the next queued task); a
\* success report handled later on such a worker fulfils its task.
C12_TaskFailureIsolation ==
    [][\A w \in WorkerIds :
        (DeliverMessage(w) /\ messageListeners[w] # <<>>) =>
            LET t == Head(messageListeners[w])
                r == Head(outbox[w])
            IN  /\ ~r.success =>
                    /\ future'[t] = "rejected"
                    /\ \A u \in TaskIds \ {t} : future'[u] = future[u]
                    /\ \/ w \in Range(availableWorkers')
                       \/ \E u \in TaskIds \ {t} :
                            /\ assigned'[u] = w /\ future'[u] = "pending"
                            /\ u = Waiting(Main)
                /\ (r.success /\ ReportedFailure(w)) => future'[t] = "fulfilled"]_vars

\* C12 witness: on a pool of capacity 1 a task was rejected by a failure
\* report and a task submitted after that was dispatched and fulfilled.
C12_Witness ==
    /\ poolSize = 1
    /\ \E t, u \in TaskIds :
        /\ t < u /\ u \notin wasQueued
        /\ report[t].kind = "message" /\ ~report[t].success
        /\ future[t] = "rejected"
        /\ assigned[u] = assigned[t]
        /\ future[u] = "fulfilled"

\* C13: every submitted task whose Future is not settled is either once in
\* the pending queue and on no worker, or in flight on exactly one worker and
\* not in the queue.
C13_PendingTaskOwnership ==
    \A t \in TaskIds :
        future[t] = "pending" =>
            \/ QueueCount(t) = 1 /\ Holders(t) = {} /\ assigned[t] = 0
            \/ QueueCount(t) = 0 /\ assigned[t] # 0 /\ Holders(t) = {assigned[t]}

\* C13 witness: a task that waited in the queue is now in flight while
\* another task waits in the queue.
C13_Witness ==
    \E t \in wasQueued, u \in TaskIds :
        /\ future[t] = "pending" /\ Holders(t) = {assigned[t]}
        /\ future[u] = "pending" /\ QueueCount(u) = 1

\* C14: a worker with a task in flight carries exactly one per-task 'message'
\* listener and one per-task 'error' listener, those of that task; a worker
\* with no task in flight carries none; and no task's handler has run twice.
C14_NoListenerLeak ==
    /\ \A w \in WorkerIds :
        IF InFlight(w) # {}
        THEN /\ Len(messageListeners[w]) = 1
             /\ Len(errorListeners[w]) = 1
             /\ InFlight(w) = {messageListeners[w][1]}
             /\ InFlight(w) = {errorListeners[w][1]}
        ELSE messageListeners[w] = <<>> /\ errorListeners[w] = <<>>
    /\ \A t \in TaskIds : report[t].kind # "none" => settleCalls[t] = 1

\* C14 witness: a worker that has completed two tasks, one by a message and
\* one by an error, is idle, and another worker has its second task in flight.
C14_Witness ==
    \E w, v \in WorkerIds :
        /\ w # v
        /\ InFlight(w) = {}
        /\ \E a, b \in TaskIds :
            /\ assigned[a] = w /\ report[a].kind = "message"
            /\ assigned[b] = w /\ report[b].kind = "error"
        /\ InFlight(v) # {}
        /\ \E c \in TaskIds : assigned[c] = v /\ future[c] \in Settled

\* C15: in every pool state runTask can be called, and a call leaves the new
\* task's Future pending with no resolve or reject called, settles no other
\* Future, and has either dispatched the task (a worker was idle) or appended
\* it to the tail of the queue (none was).
C15_SubmitNeverFails ==
    /\ [](submitted < MaxTasks => ENABLED RunTask)
    /\ [][submitted' = submitted + 1 =>
            LET t == submitted'
            IN  /\ future'[t] = "pending" /\ settleCalls'[t] = 0
                /\ \A u \in TaskIds \ {t} :
                        future'[u] = future[u] /\ settleCalls'[u] = settleCalls[u]
                /\ availableWorkers # <<>> =>
                        /\ dispatchLog' = Append(dispatchLog, t)
                        /\ assigned'[t] = Last(availableWorkers)
                        /\ taskQueue' = taskQueue
                /\ availableWorkers = <<>> =>
                        /\ taskQueue' = Append(taskQueue, t)
                        /\ dispatchLog' = dispatchLog]_vars

\* C15 witness: after a worker fault and after terminate() resolved, with
\* tasks already waiting, a newly submitted task is pending at the tail of
\* the queue.
C15_Witness ==
    /\ terminated
    /\ \E w \in WorkerIds : threadState[w] = "faulted"
    /\ Len(taskQueue) >= 2
    /\ Last(taskQueue) = submitted
    /\ Last(taskQueue) \notin queuedAtTerminate
    /\ future[Last(taskQueue)] = "pending"

\* C16: no reachable state has both a task waiting in the pending queue and
\* a worker in the idle list.
C16_WorkConservation == ~(taskQueue # <<>> /\ availableWorkers # <<>>)

\* C16 witness: a completion handler has dispatched a task from the queue,
\* a task is still waiting and no worker is idle.
C16_Witness ==
    /\ \E t \in wasQueued : Dispatched(t) /\ report[t].kind = "none"
    /\ taskQueue # <<>>
    /\ availableWorkers = <<>>
    /\ ~terminating /\ ~terminated

\* C17: a task's Future is fulfilled exactly when its handler received a
\* result with success = true, rejected exactly when it received a failure
\* result or a worker error, and the event a handler receives is always the
\* one the worker produced for that same task.
C17_ResultRouting ==
    \A t \in TaskIds :
        /\ future[t] = "fulfilled" <=>
                (report[t].kind = "message" /\ report[t].success)
        /\ future[t] = "rejected" <=>
                \/ report[t].kind = "message" /\ ~report[t].success
                \/ report[t].kind = "error"
        /\ report[t].kind # "none" => report[t].task = t

\* C17 witness: one worker ran three tasks back to back, the first fulfilled,
\* the second rejected by a failure result, the third rejected by its error.
C17_Witness ==
    \E a, b, c \in TaskIds :
        /\ a < b /\ b < c
        /\ assigned[a] # 0 /\ assigned[a] = assigned[b] /\ assigned[b] = assigned[c]
        /\ future[a] = "fulfilled"
        /\ future[b] = "rejected" /\ report[b].kind = "message"
        /\ future[c] = "rejected" /\ report[c].kind = "error"

\* C18: whenever a task's Future is settled, the task its completion
\* handler found at the head of the queue has already been posted to the
\* freed worker (the queue head is dispatched first, the Future settled last).
C18_DispatchBeforeSettle ==
    /\ \A t \in TaskIds : future[t] \in Settled => orderKept[t]
    /\ \A n \in wasQueued :
            Dispatched(n) =>
                \E t \in TaskIds :
                    /\ assigned[t] = assigned[n]
                    /\ Position(dispatchLog, t) < Position(dispatchLog, n)
                    /\ future[t] \in Settled

\* C18 witness: a message handler and an error handler each found a task
\* waiting, posted it to their worker and settled their own task.
C18_Witness ==
    \E t, u \in TaskIds, n, m \in wasQueued :
        /\ report[t].kind = "message" /\ report[u].kind = "error"
        /\ n = t + 1 /\ assigned[n] = assigned[t]
        /\ m = u + 1 /\ assigned[m] = assigned[u]
        /\ poolSize = 1

\* C19: the idle list holds no worker twice and only members of workers, and
\* once terminate() has been called no completion puts a worker that it
\* stopped back into the idle list.
C19_IdleListWellFormed ==
    /\ [](/\ Cardinality(Range(availableWorkers)) = Len(availableWorkers)
          /\ Range(availableWorkers) \subseteq Range(workers))
    /\ [][\A w \in WorkerIds :
            (threadState[w] = "stopped" /\ w \notin Range(availableWorkers))
                => w \notin Range(availableWorkers')]_vars

\* C20: however the database steps of concurrent POST /reserve-dose requests
\* interleave, the inventory count is never below zero, no more CONFIRMED
\* reservations exist than there were doses, and no more requests are
\* answered 'Dose reserved' than there were doses.
C20_NoOverReservation ==
    /\ inventoryCount >= 0
    /\ reservations <= initialStock
    /\ Cardinality({r \in RequestIds : reqPc[r] = "reserved"}) <= initialStock

====
